---------------------------- MODULE Spec2Model ----------------------------
(***************************************************************************)
(* RIPEMD-160 streaming hasher (crate ripemd160, src/lib.rs).              *)
(*                                                                         *)
(* The struct Ripemd160 {h, len, buffer} and its four operations           *)
(* (default, process, fixed_result, reset) and the derived Clone are       *)
(* translated from src/lib.rs.  The block buffer (BlockBuffer<U64>) and    *)
(* the compression function (mod block: process_msg_block, H0) are not     *)
(* part of src/lib.rs; they are modelled from the specification: the       *)
(* Pending Buffer is a byte sequence of length 0..63, and the compression  *)
(* function is the published RIPEMD-160 round algorithm on 32-bit words.   *)
(*                                                                         *)
(* Numbers: TLC integers are 32-bit signed, so a u32 is the pair           *)
(* <<low 16 bits, high 16 bits>> and a u64 is four 16-bit limbs, least     *)
(* significant first.  All arithmetic keeps the width of the Rust type.    *)
(***************************************************************************)
EXTENDS Integers, Sequences, FiniteSets, TLC

VARIABLES
    hs,      \* hs[w]: the Ripemd160 value held in slot w (fields h, len, buffer)
    st,      \* st[w]: "none" (no such value yet), "live", or "done" (consumed by fixed_result)
    out,     \* out[w]: the digest fixed_result returned for slot w, <<>> before
    fed,     \* history: every byte given to slot w's value since default() / reset()
    blocks,  \* history: every 64-byte block handed to process_msg_block for slot w
    fin,     \* history: buffer length when fixed_result began, and the blocks it fed
    ncalls,  \* number of process calls made so far
    lc       \* the length-only view of a hasher (see SpecLen)

vars == <<hs, st, out, fed, blocks, fin, ncalls, lc>>

---------------------------------------------------------------------------
(* Bounds of the model.                                                    *)

MaxCalls == 3
MaxLenCalls == 3

---------------------------------------------------------------------------
(* Program constants.                                                      *)

BlockSize == 64
OutputSize == 20
DIGEST_BUF_LEN == 5

Half == 2^16

---------------------------------------------------------------------------
(* u32 arithmetic on <<lo, hi>> pairs of 16-bit halves.                    *)

RECURSIVE AndBits(_, _, _)
AndBits(a, b, n) ==
    IF n = 0 THEN 0
    ELSE ((a % 2) * (b % 2)) + (2 * AndBits(a \div 2, b \div 2, n - 1))

AndTable == [a \in 0..255 |-> [b \in 0..255 |-> AndBits(a, b, 8)]]

And16(a, b) == (AndTable[a \div 256][b \div 256] * 256) + AndTable[a % 256][b % 256]
Xor16(a, b) == (a + b) - (2 * And16(a, b))
Or16(a, b) == (a + b) - And16(a, b)
Not16(a) == (Half - 1) - a

And32(a, b) == <<And16(a[1], b[1]), And16(a[2], b[2])>>
Or32(a, b) == <<Or16(a[1], b[1]), Or16(a[2], b[2])>>
Xor32(a, b) == <<Xor16(a[1], b[1]), Xor16(a[2], b[2])>>
Not32(a) == <<Not16(a[1]), Not16(a[2])>>

\* u32 wrapping_add
Add32(a, b) ==
    LET lo == a[1] + b[1]
    IN <<lo % Half, (a[2] + b[2] + (lo \div Half)) % Half>>

RotlHalves(lo, hi, s) ==
    << ((lo * (2^s)) % Half) + (hi \div (2^(16 - s))),
       ((hi * (2^s)) % Half) + (lo \div (2^(16 - s))) >>

\* u32 rotate_left(s), 0 <= s < 32
Rotl(a, s) ==
    IF s = 0 THEN a
    ELSE IF s = 16 THEN <<a[2], a[1]>>
    ELSE IF s < 16 THEN RotlHalves(a[1], a[2], s)
    ELSE RotlHalves(a[2], a[1], s - 16)

\* The u32 whose high and low halves are hi and lo.
W(hi, lo) == <<lo, hi>>

\* LE::write_u32: the four bytes of a u32, least significant first.
WordBytesLE(w) == <<w[1] % 256, w[1] \div 256, w[2] % 256, w[2] \div 256>>

\* LE::read_u32 of bytes 4i+1 .. 4i+4 of a block (i = 0..15).
WordAt(block, i) ==
    << block[(4 * i) + 1] + (256 * block[(4 * i) + 2]),
       block[(4 * i) + 3] + (256 * block[(4 * i) + 4]) >>

---------------------------------------------------------------------------
(* u64 arithmetic on four 16-bit limbs, least significant first.           *)

U64Zero == <<0, 0, 0, 0>>

\* A usize below 2^31 as a u64 (input.len() as u64).
U64FromNat(n) == <<n % Half, n \div Half, 0, 0>>

\* The carry into limb i+1 when adding a and b.
RECURSIVE Carry64(_, _, _)
Carry64(a, b, i) ==
    IF i = 0 THEN 0 ELSE (a[i] + b[i] + Carry64(a, b, i - 1)) \div Half

\* u64 wrapping add.
U64Add(a, b) == [i \in 1..4 |-> (a[i] + b[i] + Carry64(a, b, i - 1)) % Half]

\* TRUE iff a + b does not fit in a u64.
U64AddOverflows(a, b) == Carry64(a, b, 4) = 1

\* u64 << s for 0 <= s < 16: bits shifted past bit 63 are dropped.
U64Shl(a, s) ==
    [i \in 1..4 |->
        ((a[i] * (2^s)) % Half) + (IF i = 1 THEN 0 ELSE a[i - 1] \div (2^(16 - s)))]

\* LE::write_u64: the eight bytes of a u64, least significant first.
U64BytesLE(a) ==
    << a[1] % 256, a[1] \div 256, a[2] % 256, a[2] \div 256,
       a[3] % 256, a[3] \div 256, a[4] % 256, a[4] \div 256 >>

---------------------------------------------------------------------------
(* The compression function (mod block), after the published RIPEMD-160.   *)

\* Initial hash state h0..h4.
H0 ==
    << W(26437, 8961), W(61389, 43913), W(39098, 56574),
       W(4146, 21622), W(50130, 57840) >>

\* Additive constants of the five rounds, left and right line.
KLeft == <<W(0, 0), W(23170, 31129), W(28377, 60321), W(36635, 48348), W(43347, 64846)>>
KRight == <<W(20642, 35814), W(23629, 53540), W(28016, 16115), W(31341, 30441), W(0, 0)>>

\* Message-word selection, left and right line (80 steps each).
RLeft ==
    << 0, 1, 2, 3, 4, 5, 6, 7, 8, 9, 10, 11, 12, 13, 14, 15,
       7, 4, 13, 1, 10, 6, 15, 3, 12, 0, 9, 5, 2, 14, 11, 8,
       3, 10, 14, 4, 9, 15, 8, 1, 2, 7, 0, 6, 13, 11, 5, 12,
       1, 9, 11, 10, 0, 8, 12, 4, 13, 3, 7, 15, 14, 5, 6, 2,
       4, 0, 5, 9, 7, 12, 2, 10, 14, 1, 3, 8, 11, 6, 15, 13 >>
RRight ==
    << 5, 14, 7, 0, 9, 2, 11, 4, 13, 6, 15, 8, 1, 10, 3, 12,
       6, 11, 3, 7, 0, 13, 5, 10, 14, 15, 8, 12, 4, 9, 1, 2,
       15, 5, 1, 3, 7, 14, 6, 9, 11, 8, 12, 2, 10, 0, 4, 13,
       8, 6, 4, 1, 3, 11, 15, 0, 5, 12, 2, 13, 9, 7, 10, 14,
       12, 15, 10, 4, 1, 5, 8, 7, 6, 2, 13, 14, 0, 3, 9, 11 >>

\* Per-step left-rotation amounts, left and right line.
SLeft ==
    << 11, 14, 15, 12, 5, 8, 7, 9, 11, 13, 14, 15, 6, 7, 9, 8,
       7, 6, 8, 13, 11, 9, 7, 15, 7, 12, 15, 9, 11, 7, 13, 12,
       11, 13, 6, 7, 14, 9, 13, 15, 14, 8, 13, 6, 5, 12, 7, 5,
       11, 12, 14, 15, 14, 15, 9, 8, 9, 14, 5, 6, 8, 6, 5, 12,
       9, 15, 5, 11, 6, 8, 13, 12, 5, 12, 13, 14, 11, 8, 5, 6 >>
SRight ==
    << 8, 9, 9, 11, 13, 15, 15, 5, 7, 7, 8, 11, 14, 14, 12, 6,
       9, 13, 15, 7, 12, 8, 9, 11, 7, 7, 12, 7, 6, 15, 13, 11,
       9, 7, 15, 11, 8, 6, 6, 14, 12, 13, 5, 14, 13, 13, 7, 5,
       15, 5, 8, 11, 14, 14, 6, 14, 6, 9, 12, 9, 12, 5, 15, 8,
       8, 5, 12, 9, 12, 5, 14, 6, 8, 13, 6, 5, 15, 13, 11, 11 >>

\* The five nonlinear Boolean functions.
F(n, x, y, z) ==
    CASE n = 1 -> Xor32(Xor32(x, y), z)
      [] n = 2 -> Or32(And32(x, y), And32(Not32(x), z))
      [] n = 3 -> Xor32(Or32(x, Not32(y)), z)
      [] n = 4 -> Or32(And32(x, z), And32(y, Not32(z)))
      [] n = 5 -> Xor32(x, Or32(y, Not32(z)))

\* One step on the registers <<a, b, c, d, e>>: the new b is
\* rotl(a + f + x + k, s) + e, c is rotated by 10, and the registers cycle.
Step(regs, f, x, k, s) ==
    LET t == Add32(Rotl(Add32(Add32(Add32(regs[1], f), x), k), s), regs[5])
    IN <<regs[5], t, regs[2], Rotl(regs[3], 10), regs[4]>>

RoundOf(j) == ((j - 1) \div 16) + 1

LeftStep(regs, x, j) ==
    Step(regs, F(RoundOf(j), regs[2], regs[3], regs[4]),
         x[RLeft[j] + 1], KLeft[RoundOf(j)], SLeft[j])

RightStep(regs, x, j) ==
    Step(regs, F(6 - RoundOf(j), regs[2], regs[3], regs[4]),
         x[RRight[j] + 1], KRight[RoundOf(j)], SRight[j])

\* Steps j..last of a line, on five registers.
RECURSIVE LeftSteps(_, _, _, _)
LeftSteps(regs, x, j, last) ==
    IF j > last \/ Len(regs) # DIGEST_BUF_LEN THEN regs
    ELSE LeftSteps(LeftStep(regs, x, j), x, j + 1, last)

RECURSIVE RightSteps(_, _, _, _)
RightSteps(regs, x, j, last) ==
    IF j > last \/ Len(regs) # DIGEST_BUF_LEN THEN regs
    ELSE RightSteps(RightStep(regs, x, j), x, j + 1, last)

\* The 80 steps of a line, one round of 16 at a time.
LeftLine(h, x) ==
    LeftSteps(LeftSteps(LeftSteps(LeftSteps(LeftSteps(h, x, 1, 16),
        x, 17, 32), x, 33, 48), x, 49, 64), x, 65, 80)

RightLine(h, x) ==
    RightSteps(RightSteps(RightSteps(RightSteps(RightSteps(h, x, 1, 16),
        x, 17, 32), x, 33, 48), x, 49, 64), x, 65, 80)

\* The new state from the old one and the final registers of the two lines.
Combine(h, l, r) ==
    << Add32(Add32(h[2], l[3]), r[4]),
       Add32(Add32(h[3], l[4]), r[5]),
       Add32(Add32(h[4], l[5]), r[1]),
       Add32(Add32(h[5], l[1]), r[2]),
       Add32(Add32(h[1], l[2]), r[3]) >>

\* The sixteen little-endian words of a block.
BlockWords(block) == [i \in 1..16 |-> WordAt(block, i - 1)]

\* process_msg_block(h, block): the next state from state h and one 64-byte block.
process_msg_block(h, block) ==
    Combine(h, LeftLine(h, BlockWords(block)), RightLine(h, BlockWords(block)))

\* The closure |b| process_msg_block(h, b) applied to each block in turn.
RECURSIVE CompressAll(_, _)
CompressAll(h, bs) ==
    IF bs = <<>> THEN h
    ELSE CompressAll(process_msg_block(h, Head(bs)), Tail(bs))

---------------------------------------------------------------------------
(* The block buffer (BlockBuffer<U64>): the Pending Buffer of 0..63 bytes. *)

Zeros(n) == [i \in 1..n |-> 0]

\* BlockBuffer::default
BufferDefault == <<>>

\* BlockBuffer::reset
BufferReset(buffer) == <<>>

\* BlockBuffer::input(input, f): the pending bytes followed by the input are
\* cut into 64-byte blocks, each given to f in order; the rest stays pending.
BufferInput(buffer, input) ==
    LET data == buffer \o input
        n == Len(data) \div BlockSize
    IN [ blocks |-> [k \in 1..n |-> SubSeq(data, (BlockSize * (k - 1)) + 1, BlockSize * k)],
         buffer |-> SubSeq(data, (BlockSize * n) + 1, Len(data)) ]

\* BlockBuffer::len64_padding::<LE>(l, f): 0x80, zeros up to the last eight
\* bytes of a block, then l as eight little-endian bytes.  When fewer than
\* eight bytes remain after the 0x80 the block is zero-filled and given to f,
\* and the length goes into a further block.
BufferLen64Padding(buffer, l) ==
    LET marked == Append(buffer, 128)
        room == BlockSize - Len(marked)
    IN IF room < 8
       THEN << marked \o Zeros(room), Zeros(BlockSize - 8) \o U64BytesLE(l) >>
       ELSE << marked \o Zeros(room - 8) \o U64BytesLE(l) >>

---------------------------------------------------------------------------
(* struct Ripemd160 and its operations (src/lib.rs).                       *)

\* impl Default for Ripemd160
default == [h |-> H0, len |-> U64Zero, buffer |-> BufferDefault]

\* Mutant of clone: the Pending Buffer is not copied.
CloneFreshBuffer(self) == [h |-> self.h, len |-> self.len, buffer |-> BufferDefault]

\* #[derive(Clone)]: a field-by-field copy
clone(self) == [h |-> self.h, len |-> self.len, buffer |-> self.buffer]

\* Mutants of LenAfter: the length assigned instead of added, and the
\* length narrowed to 32 bits before it is added.
LenAfterAssign(len, n) == n
LenAfterNarrow(len, n) == U64Add(len, <<n[1], n[2], 0, 0>>)

\* Mutant of LenAfter: an empty input is counted as one byte.
LenAfterAtLeastOne(len, n) == U64Add(len, IF n = U64Zero THEN U64FromNat(1) ELSE n)

\* self.len += input.len() as u64   (the wrapped sum; see ProcessLen for overflow)
LenAfter(len, n) == U64Add(len, n)

\* Mutant of ProcessBlocks: the pending bytes are left out of the blocks.
ProcessBlocksInputOnly(self, input) == BufferInput(BufferDefault, input).blocks

\* The blocks Input::process hands to process_msg_block.
ProcessBlocks(self, input) == BufferInput(self.buffer, input).blocks

\* Mutant of process: the input is appended to the pending bytes and full
\* blocks are compressed, but the compressed bytes are never dropped.
ProcessKeepsAll(self, input) ==
    [ h |-> CompressAll(self.h, BufferInput(self.buffer, input).blocks),
      len |-> U64Add(self.len, U64FromNat(Len(input))),
      buffer |-> self.buffer \o input ]

\* Mutant of process: every call compresses from the initialization constants.
ProcessRestartsH(self, input) ==
    [ h |-> CompressAll(H0, BufferInput(self.buffer, input).blocks),
      len |-> U64Add(self.len, U64FromNat(Len(input))),
      buffer |-> BufferInput(self.buffer, input).buffer ]

\* Mutant of process: the length is not counted.
ProcessNoLen(self, input) ==
    [ h |-> CompressAll(self.h, ProcessBlocks(self, input)),
      len |-> self.len,
      buffer |-> BufferInput(self.buffer, input).buffer ]

\* Input::process(&mut self, input)
process(self, input) ==
    [ h |-> CompressAll(self.h, ProcessBlocks(self, input)),
      len |-> LenAfter(self.len, U64FromNat(Len(input))),
      buffer |-> BufferInput(self.buffer, input).buffer ]

\* Mutant of BitLen: a shift by two.
BitLenShl2(len) == U64Shl(len, 2)

\* let l = self.len << 3
BitLen(len) == U64Shl(len, 3)

\* Mutants of FinalBlocks: the byte count passed as the length, and a
\* 128-bit length field (len128_padding), which needs sixteen free bytes.
FinalBlocksByteLen(self) == BufferLen64Padding(self.buffer, self.len)
FinalBlocksLen128(self) ==
    LET marked == Append(self.buffer, 128)
        room == BlockSize - Len(marked)
        suffix == U64BytesLE(BitLen(self.len)) \o Zeros(8)
    IN IF room < 16
       THEN << marked \o Zeros(room), Zeros(BlockSize - 16) \o suffix >>
       ELSE << marked \o Zeros(room - 16) \o suffix >>

\* The blocks FixedOutput::fixed_result hands to process_msg_block.
FinalBlocks(self) == BufferLen64Padding(self.buffer, BitLen(self.len))

\* Mutant of WriteOut: the words written most significant byte first.
WriteOutBE(h) ==
    LET be(w) == <<w[2] \div 256, w[2] % 256, w[1] \div 256, w[1] % 256>>
    IN be(h[1]) \o be(h[2]) \o be(h[3]) \o be(h[4]) \o be(h[5])

\* LE::write_u32_into(&self.h, &mut out)
WriteOut(h) ==
    WordBytesLE(h[1]) \o WordBytesLE(h[2]) \o WordBytesLE(h[3])
        \o WordBytesLE(h[4]) \o WordBytesLE(h[5])

\* FixedOutput::fixed_result(mut self): self after the padding, and the digest.
fixed_result(self) ==
    LET h == CompressAll(self.h, FinalBlocks(self))
    IN [ self |-> [h |-> h, len |-> self.len, buffer |-> BufferReset(self.buffer)],
         out |-> WriteOut(h) ]

\* Mutants of reset: the hash state is not restored, and the clone is taken
\* after the fields were reset.
ResetKeepsH(self) ==
    [ self |-> [h |-> self.h, len |-> U64Zero, buffer |-> BufferReset(self.buffer)],
      ret |-> clone(self) ]
ResetClonesAfter(self) ==
    [ self |-> [h |-> H0, len |-> U64Zero, buffer |-> BufferReset(self.buffer)],
      ret |-> clone([h |-> H0, len |-> U64Zero, buffer |-> BufferReset(self.buffer)]) ]

\* Mutant of reset: the length counter is not cleared.
ResetKeepsLen(self) ==
    [ self |-> [h |-> H0, len |-> self.len, buffer |-> BufferReset(self.buffer)],
      ret |-> clone(self) ]

\* Reset::reset(&mut self) -> Self: self afterwards, and the value returned.
reset(self) ==
    [ self |-> [h |-> H0, len |-> U64Zero, buffer |-> BufferReset(self.buffer)],
      ret |-> clone(self) ]

\* The digest of message m fed to a fresh hasher in a single process call.
OneShot(m) == fixed_result(process(default, m)).out

---------------------------------------------------------------------------
(* Messages.                                                               *)

\* ""
Empty == <<>>
\* "a"
MsgA == <<97>>
\* "Hello world!"
HelloWorld == <<72, 101, 108, 108, 111, 32, 119, 111, 114, 108, 100, 33>>
\* "ABCDEFGHIJKLMNOPQRSTUVWXYZabcdefghijklmnopqrstuvwxyz0123456789"
AlphaNum62 ==
    << 65, 66, 67, 68, 69, 70, 71, 72, 73, 74, 75, 76, 77, 78, 79, 80,
       81, 82, 83, 84, 85, 86, 87, 88, 89, 90, 97, 98, 99, 100, 101, 102,
       103, 104, 105, 106, 107, 108, 109, 110, 111, 112, 113, 114, 115, 116, 117, 118,
       119, 120, 121, 122, 48, 49, 50, 51, 52, 53, 54, 55, 56, 57 >>
\* "1234567890" eight times
Digits80 ==
    << 49, 50, 51, 52, 53, 54, 55, 56, 57, 48, 49, 50, 51, 52, 53, 54,
       55, 56, 57, 48, 49, 50, 51, 52, 53, 54, 55, 56, 57, 48, 49, 50,
       51, 52, 53, 54, 55, 56, 57, 48, 49, 50, 51, 52, 53, 54, 55, 56,
       57, 48, 49, 50, 51, 52, 53, 54, 55, 56, 57, 48, 49, 50, 51, 52,
       53, 54, 55, 56, 57, 48, 49, 50, 51, 52, 53, 54, 55, 56, 57, 48 >>
\* The first 55 bytes of AlphaNum62: the longest message padded into one block.
Alpha55 == SubSeq(AlphaNum62, 1, 55)

\* The first 64 bytes of Digits80: exactly one block.
Digits64 == SubSeq(Digits80, 1, BlockSize)

\* The inputs a process call may be given: all of them for a single hasher,
\* fewer where a second hasher multiplies the interleavings.
Inputs == {Empty, MsgA, HelloWorld, Alpha55, AlphaNum62, Digits64, Digits80}
ResetInputs == {MsgA, AlphaNum62, Digits80}
ForkInputs == {HelloWorld, AlphaNum62}
AllInputs == {MsgA, Digits80}
OpsInputs == {MsgA, AlphaNum62, Digits64}

---------------------------------------------------------------------------
(* The state machine: one hasher ("orig"), a clone of it ("copy"), and the *)
(* value reset returns ("ret").                                            *)

Who == {"orig", "copy", "ret"}

NoHasher == [h |-> <<>>, len |-> <<>>, buffer |-> <<>>]
NoFin == [pos |-> 0, n |-> 0]
LcIdle == [pc |-> "idle"]

Init ==
    /\ hs = [w \in Who |-> IF w = "orig" THEN default ELSE NoHasher]
    /\ st = [w \in Who |-> IF w = "orig" THEN "live" ELSE "none"]
    /\ out = [w \in Who |-> <<>>]
    /\ fed = [w \in Who |-> <<>>]
    /\ blocks = [w \in Who |-> <<>>]
    /\ fin = [w \in Who |-> NoFin]
    /\ ncalls = 0
    /\ lc = LcIdle

\* hasher.input(input) on the value in slot w
Process(w, input) ==
    /\ st[w] = "live"
    /\ ncalls < MaxCalls
    /\ hs' = [hs EXCEPT ![w] = process(hs[w], input)]
    /\ fed' = [fed EXCEPT ![w] = @ \o input]
    /\ blocks' = [blocks EXCEPT ![w] = @ \o ProcessBlocks(hs[w], input)]
    /\ ncalls' = ncalls + 1
    /\ UNCHANGED <<st, out, fin, lc>>

\* let copy = orig.clone()
Clone ==
    /\ st["orig"] = "live"
    /\ st["copy"] = "none"
    /\ hs' = [hs EXCEPT !["copy"] = clone(hs["orig"])]
    /\ st' = [st EXCEPT !["copy"] = "live"]
    /\ fed' = [fed EXCEPT !["copy"] = fed["orig"]]
    /\ blocks' = [blocks EXCEPT !["copy"] = blocks["orig"]]
    /\ UNCHANGED <<out, fin, ncalls, lc>>

\* let ret = orig.reset()
Reset ==
    /\ st["orig"] = "live"
    /\ st["ret"] = "none"
    /\ LET r == reset(hs["orig"])
       IN hs' = [hs EXCEPT !["orig"] = r.self, !["ret"] = r.ret]
    /\ st' = [st EXCEPT !["ret"] = "live"]
    /\ fed' = [fed EXCEPT !["orig"] = <<>>, !["ret"] = fed["orig"]]
    /\ blocks' = [blocks EXCEPT !["orig"] = <<>>, !["ret"] = blocks["orig"]]
    /\ UNCHANGED <<out, fin, ncalls, lc>>

\* let digest = w.fixed_result(): consumes the value in slot w
FixedResult(w) ==
    /\ st[w] = "live"
    /\ LET r == fixed_result(hs[w])
       IN /\ hs' = [hs EXCEPT ![w] = r.self]
          /\ out' = [out EXCEPT ![w] = r.out]
    /\ st' = [st EXCEPT ![w] = "done"]
    /\ blocks' = [blocks EXCEPT ![w] = @ \o FinalBlocks(hs[w])]
    /\ fin' = [fin EXCEPT ![w] = [pos |-> Len(hs[w].buffer), n |-> Len(FinalBlocks(hs[w]))]]
    /\ UNCHANGED <<fed, ncalls, lc>>

\* Every operation, on every value.
Next ==
    \/ \E w \in {"orig", "copy"}, input \in AllInputs : Process(w, input)
    \/ Clone
    \/ Reset
    \/ \E w \in Who : FixedResult(w)

Spec == Init /\ [][Next]_vars

\* One hasher: input calls, then fixed_result.
NextStream ==
    \/ \E input \in Inputs : Process("orig", input)
    \/ FixedResult("orig")

SpecStream == Init /\ [][NextStream]_vars

\* One hasher and reset: input calls, one reset, and fixed_result of the
\* hasher and of the value reset returned.
NextReset ==
    \/ \E input \in ResetInputs : Process("orig", input)
    \/ Reset
    \/ \E w \in {"orig", "ret"} : FixedResult(w)

SpecReset == Init /\ [][NextReset]_vars

\* One hasher and its clone: input calls to either in any order, and
\* fixed_result of each.
NextFork ==
    \/ \E w \in {"orig", "copy"}, input \in ForkInputs : Process(w, input)
    \/ Clone
    \/ \E w \in {"orig", "copy"} : FixedResult(w)

SpecFork == Init /\ [][NextFork]_vars

\* Input, clone and reset calls only: no hasher is finalized.
NextOps ==
    \/ \E w \in {"orig", "copy"}, input \in OpsInputs : Process(w, input)
    \/ Clone
    \/ Reset

SpecOps == Init /\ [][NextOps]_vars

---------------------------------------------------------------------------
(* The hasher by lengths alone.  A stream of 2^61 bytes or more cannot be  *)
(* compressed block by block here, so this view feeds zero bytes, keeps    *)
(* len and the Pending Buffer exactly as process and fixed_result do, and  *)
(* leaves the hash state out.  A slice holds at most isize::MAX = 2^63 - 1 *)
(* bytes, so totals near 2^64 take several calls.                          *)

\* Exact natural numbers below 2^96: six 16-bit limbs, least significant first.
BigZero == <<0, 0, 0, 0, 0, 0>>
BigOfU64(a) == a \o <<0, 0>>

RECURSIVE BigCarry(_, _, _)
BigCarry(a, b, i) ==
    IF i = 0 THEN 0 ELSE (a[i] + b[i] + BigCarry(a, b, i - 1)) \div Half

BigAdd(a, b) == [i \in 1..6 |-> (a[i] + b[i] + BigCarry(a, b, i - 1)) % Half]

\* a < 2^k for a Big a and k a multiple of 16 plus r: the limbs above bit k are zero.
BigBelowPow2(a, k) ==
    \A i \in 1..6 :
        IF 16 * (i - 1) >= k THEN a[i] = 0
        ELSE IF 16 * i > k THEN a[i] < 2^(k - (16 * (i - 1)))
        ELSE TRUE

\* 2^k and 2^k - 1 as u64, 0 <= k < 64.
U64Pow2(k) == [i \in 1..4 |-> IF i = (k \div 16) + 1 THEN 2^(k % 16) ELSE 0]
U64Ones(k) ==
    [i \in 1..4 |->
        IF 16 * i <= k THEN Half - 1
        ELSE IF 16 * (i - 1) < k THEN (2^(k - (16 * (i - 1)))) - 1
        ELSE 0]

\* input.len() of the calls: small lengths around a block, 2^32, the
\* lengths around 2^61 (where len << 3 reaches bit 64), and isize::MAX.
LenInputs ==
    { U64FromNat(0), U64FromNat(1), U64FromNat(55), U64FromNat(64),
      U64Pow2(32), U64Ones(61), U64Pow2(61), U64Ones(63) }

InitLen ==
    /\ hs = [w \in Who |-> IF w = "orig" THEN default ELSE NoHasher]
    /\ st = [w \in Who |-> IF w = "orig" THEN "live" ELSE "none"]
    /\ out = [w \in Who |-> <<>>]
    /\ fed = [w \in Who |-> <<>>]
    /\ blocks = [w \in Who |-> <<>>]
    /\ fin = [w \in Who |-> NoFin]
    /\ ncalls = 0
    /\ lc = [ pc |-> "live", len |-> default.len, buffer |-> default.buffer,
              total |-> BigZero, calls |-> 0, last |-> U64Zero, fblocks |-> <<>>,
              nblocks |-> BigZero ]

\* The Pending Buffer after n more zero bytes.
BufferAfterZeros(buffer, n) == Zeros((Len(buffer) + (n[1] % BlockSize)) % BlockSize)

\* a \div 64 for a Big a.
BigDiv64(a) ==
    [i \in 1..6 |-> (a[i] \div BlockSize) +
                    (IF i < 6 THEN (a[i + 1] % BlockSize) * (Half \div BlockSize) ELSE 0)]

\* The number of complete blocks in the pending bytes followed by n more bytes.
BlocksAfterZeros(buffer, n) ==
    BigDiv64(BigAdd(BigOfU64(n), BigOfU64(U64FromNat(Len(buffer)))))

\* process(input) with input.len() = n, the sum fitting in a u64 or wrapping
\* (a build without overflow checks).
ProcessLen(n) ==
    /\ lc.pc = "live"
    /\ lc.calls < MaxLenCalls
    /\ lc' = [lc EXCEPT !.len = LenAfter(lc.len, n),
                        !.buffer = BufferAfterZeros(lc.buffer, n),
                        !.nblocks = BigAdd(lc.nblocks, BlocksAfterZeros(lc.buffer, n)),
                        !.total = BigAdd(lc.total, BigOfU64(n)),
                        !.calls = @ + 1,
                        !.last = n]
    /\ UNCHANGED <<hs, st, out, fed, blocks, fin, ncalls>>

\* process(input) when self.len += input.len() overflows in a build with
\* overflow checks: the call panics.
ProcessLenPanic(n) ==
    /\ lc.pc = "live"
    /\ lc.calls < MaxLenCalls
    /\ U64AddOverflows(lc.len, n)
    /\ lc' = [lc EXCEPT !.pc = "panicked",
                        !.total = BigAdd(lc.total, BigOfU64(n)),
                        !.calls = @ + 1,
                        !.last = n]
    /\ UNCHANGED <<hs, st, out, fed, blocks, fin, ncalls>>

\* fixed_result: the padding blocks it builds from len and the Pending Buffer.
FinalizeLen ==
    /\ lc.pc = "live"
    /\ lc' = [lc EXCEPT !.pc = "done",
                        !.fblocks = FinalBlocks([len |-> lc.len, buffer |-> lc.buffer])]
    /\ UNCHANGED <<hs, st, out, fed, blocks, fin, ncalls>>

NextLen ==
    \/ \E n \in LenInputs : ProcessLen(n)
    \/ \E n \in LenInputs : ProcessLenPanic(n)
    \/ FinalizeLen

SpecLen == InitLen /\ [][NextLen]_vars

\* One hasher taking process and reset calls, followed either byte by byte
\* (hs, fed, blocks) or by its lengths alone (lc), where totals reach 2^64.
LenUntouched == lc.calls = 0 /\ lc.pc = "live"
BytesUntouched == ncalls = 0 /\ st["ret"] = "none"

NextLock ==
    \/ LenUntouched /\ \E input \in OpsInputs : Process("orig", input)
    \/ LenUntouched /\ Reset
    \/ BytesUntouched /\ \E n \in LenInputs : ProcessLen(n)
    \/ BytesUntouched /\ \E n \in LenInputs : ProcessLenPanic(n)

SpecLock == InitLen /\ [][NextLock]_vars

---------------------------------------------------------------------------
(* Published RIPEMD-160 digests.                                           *)

\* 9c1185a5c5e9fc54612808977ee8f548b2258d31
KatEmpty ==
    <<156, 17, 133, 165, 197, 233, 252, 84, 97, 40, 8, 151, 126, 232, 245, 72, 178, 37, 141, 49>>
\* 0bdc9d2d256b3ee9daae347be6f4dc835a467ffe
KatMsgA ==
    <<11, 220, 157, 45, 37, 107, 62, 233, 218, 174, 52, 123, 230, 244, 220, 131, 90, 70, 127, 254>>
\* 7f772647d88750add82d8e1a7a3e5c0902a346a3
KatHelloWorld ==
    <<127, 119, 38, 71, 216, 135, 80, 173, 216, 45, 142, 26, 122, 62, 92, 9, 2, 163, 70, 163>>
\* b0e20b6e3116640286ed3a87a5713079b21f5189
KatAlphaNum62 ==
    <<176, 226, 11, 110, 49, 22, 100, 2, 134, 237, 58, 135, 165, 113, 48, 121, 178, 31, 81, 137>>
\* 9b752e45573d4b39f4dbd3323cab82bf63326bfb
KatDigits80 ==
    <<155, 117, 46, 69, 87, 61, 75, 57, 244, 219, 211, 50, 60, 171, 130, 191, 99, 50, 107, 251>>

KnownAnswers ==
    { <<Empty, KatEmpty>>, <<MsgA, KatMsgA>>, <<HelloWorld, KatHelloWorld>>,
      <<AlphaNum62, KatAlphaNum62>>, <<Digits80, KatDigits80>> }

---------------------------------------------------------------------------
(* Operators the properties are stated with.                               *)

\* The blocks of a trace, end to end.
RECURSIVE Flatten(_)
Flatten(bs) == IF bs = <<>> THEN <<>> ELSE Head(bs) \o Flatten(Tail(bs))

\* The fewest zero bytes that bring n + 1 + k to 56 modulo 64.
ZeroCount(n) == CHOOSE k \in 0..63 : (n + 1 + k) % 64 = 56

\* A number below 2^31 as eight little-endian bytes.
LE64Of(v) ==
    [i \in 1..8 |-> IF i <= 3 THEN (v \div (256^(i - 1))) % 256
                    ELSE IF i = 4 THEN v \div (256^3)
                    ELSE 0]

\* Message m as the standard pads it.
Padded(m) == m \o <<128>> \o Zeros(ZeroCount(Len(m))) \o LE64Of(8 * Len(m))

\* Byte j (0 = least significant) of a u32.
ByteOf(w, j) == (w[(j \div 2) + 1] \div (256^(j % 2))) % 256

\* The number eight little-endian bytes encode.
BigOfBytes(b) ==
    [i \in 1..6 |-> IF i <= 4 THEN b[(2 * i) - 1] + (256 * b[2 * i]) ELSE 0]

\* 8 * t by three doublings.
BigTimes8(t) ==
    LET t2 == BigAdd(t, t)
        t4 == BigAdd(t2, t2)
    IN BigAdd(t4, t4)

\* t modulo 2^64.
BigLow64(t) == [i \in 1..6 |-> IF i <= 4 THEN t[i] ELSE 0]

\* The length suffix fixed_result wrote: the last eight bytes of its last block.
Suffix == SubSeq(lc.fblocks[Len(lc.fblocks)], BlockSize - 7, BlockSize)

---------------------------------------------------------------------------
(* Properties.                                                             *)

\* C1 (SpecStream): chunking invariance.  However the message was split
\* over process calls, the digest fixed_result returns is the digest of the
\* whole message fed to a fresh hasher in one call.
C1_ChunkingInvariance ==
    st["orig"] = "done" => out["orig"] = OneShot(fed["orig"])

\* Three calls whose pieces straddle two block boundaries.
C1_Witness ==
    /\ st["orig"] = "done"
    /\ ncalls = 3
    /\ fed["orig"] = Alpha55 \o HelloWorld \o Digits80
    /\ out["orig"] = OneShot(fed["orig"])

\* C2 (SpecReset): reset correctness.  After input calls with a first
\* message and a reset, the digest of a second message is the digest a
\* fresh hasher gives for that second message alone.
C2_ResetCorrectness ==
    (st["orig"] = "done" /\ st["ret"] # "none") => out["orig"] = OneShot(fed["orig"])

\* The first message left compressed blocks and pending bytes behind.
C2_Witness ==
    /\ st["orig"] = "done"
    /\ st["ret"] # "none"
    /\ fed["ret"] = AlphaNum62 \o Digits80
    /\ fed["orig"] = MsgA
    /\ out["orig"] = KatMsgA

\* C3 (SpecReset): the value reset returns, once finalized, gives the digest
\* of the bytes input before the reset, not that of the freshly reset state.
C3_ResetReturnsPriorWork ==
    st["ret"] = "done" =>
        /\ out["ret"] = OneShot(fed["ret"])
        /\ fed["ret"] # <<>> => out["ret"] # fixed_result(default).out

\* reset after two calls, more input to the hasher afterwards, then the
\* returned value finalized.
C3_Witness ==
    /\ st["ret"] = "done"
    /\ fed["ret"] = Digits80 \o MsgA
    /\ fed["orig"] = AlphaNum62
    /\ out["ret"] = OneShot(Digits80 \o MsgA)

\* C4 (SpecFork): clone independence.  After a clone, each of the two
\* hashers finalizes to the digest of the prefix followed by its own
\* continuation, whatever was done to the other.
C4_CloneIndependence ==
    /\ st["copy"] = "done" => out["copy"] = OneShot(fed["copy"])
    /\ (st["copy"] # "none" /\ st["orig"] = "done") => out["orig"] = OneShot(fed["orig"])

\* Prefix "Hello world!" (three calls in all, so it was fed once, before the
\* clone), then different continuations.
C4_Witness ==
    /\ st["orig"] = "done"
    /\ st["copy"] = "done"
    /\ ncalls = 3
    /\ fed["orig"] = HelloWorld \o AlphaNum62
    /\ fed["copy"] = HelloWorld \o HelloWorld
    /\ out["orig"] # out["copy"]

\* C5 (SpecLen): the Total Length Counter is the exact sum of the input
\* lengths, without wraparound, whenever that sum is below 2^64.
C5_LengthCounterExact ==
    (lc.pc # "panicked" /\ BigBelowPow2(lc.total, 64)) => BigOfU64(lc.len) = lc.total

\* The largest total, 2^64 - 1, reached in three calls, the last of one byte.
C5_Witness ==
    /\ lc.pc = "live"
    /\ lc.calls = 3
    /\ lc.last = U64FromNat(1)
    /\ lc.total = BigOfU64(U64Ones(64))
    /\ lc.len = U64Ones(64)

\* C6 (SpecStream): padding format.  The blocks compressed up to and
\* including fixed_result are the message, 0x80, the fewest zeros reaching
\* 56 modulo 64, and the bit count as 64-bit little-endian.
C6_PaddingFormat ==
    st["orig"] = "done" =>
        /\ \A k \in 1..Len(blocks["orig"]) : Len(blocks["orig"][k]) = BlockSize
        /\ Flatten(blocks["orig"]) = Padded(fed["orig"])

\* 56 bytes in two calls: the padding spills into a second block.
C6_Witness ==
    /\ st["orig"] = "done"
    /\ fed["orig"] = Alpha55 \o MsgA
    /\ Len(blocks["orig"]) = 2
    /\ Flatten(blocks["orig"]) = Padded(fed["orig"])

\* C7 (SpecStream): digest serialization.  The digest is 20 bytes: the five
\* state words after the last padding block, each as four little-endian
\* bytes, in the order h0..h4.
C7_DigestSerialization ==
    st["orig"] = "done" =>
        /\ Len(out["orig"]) = OutputSize
        /\ hs["orig"].h = CompressAll(H0, blocks["orig"])
        /\ \A i \in 0..(DIGEST_BUF_LEN - 1), j \in 0..3 :
              out["orig"][(4 * i) + j + 1] = ByteOf(hs["orig"].h[i + 1], j)

\* A digest whose first word is not a palindrome of bytes.
C7_Witness ==
    /\ st["orig"] = "done"
    /\ fed["orig"] = HelloWorld
    /\ SubSeq(out["orig"], 1, 4) = <<127, 119, 38, 71>>
    /\ hs["orig"].h[1] = W((71 * 256) + 38, (119 * 256) + 127)

\* C8 (SpecStream): known answers.  A message with a published digest,
\* however it was split over calls, finalizes to that digest.
C8_KnownAnswers ==
    st["orig"] = "done" =>
        \A ka \in KnownAnswers : fed["orig"] = ka[1] => out["orig"] = ka[2]

\* "Hello world!" fed in one call.
C8_Witness ==
    /\ st["orig"] = "done"
    /\ ncalls = 1
    /\ fed["orig"] = HelloWorld
    /\ out["orig"] = KatHelloWorld

\* C9 as claimed (SpecLen): the length suffix is exactly 8 times the total
\* number of bytes for every total below 2^64.
C9_SuffixIsEightTimesTotal ==
    (lc.pc = "done" /\ BigBelowPow2(lc.total, 64)) =>
        BigOfBytes(Suffix) = BigTimes8(lc.total)

\* C9 as amended (SpecLen): for every total below 2^64 bytes the length
\* suffix is the low 64 bits of 8 times the total, and it is exactly 8 times
\* the total for every total below 2^61 bytes.
C9_SuffixIsBitCountMod64 ==
    (lc.pc = "done" /\ BigBelowPow2(lc.total, 64)) =>
        /\ BigOfBytes(Suffix) = BigLow64(BigTimes8(lc.total))
        /\ BigBelowPow2(lc.total, 61) => BigOfBytes(Suffix) = BigTimes8(lc.total)

\* The largest total whose bit count fits: 2^61 - 1 bytes.
C9_Witness ==
    /\ lc.pc = "done"
    /\ lc.total = BigOfU64(U64Ones(61))
    /\ BigOfBytes(Suffix) = BigTimes8(lc.total)

\* C10 (SpecStream): fixed_result feeds one block when the Pending Buffer
\* holds 0..55 bytes and two when it holds 56..63, never none and never more.
C10_OneOrTwoFinalBlocks ==
    st["orig"] = "done" =>
        /\ fin["orig"].pos \in 0..63
        /\ fin["orig"].pos <= 55 => fin["orig"].n = 1
        /\ fin["orig"].pos >= 56 => fin["orig"].n = 2
        /\ Len(blocks["orig"]) = (Len(fed["orig"]) \div BlockSize) + fin["orig"].n

\* 124 bytes: one block compressed by process, 60 bytes pending, two more
\* blocks at fixed_result.
C10_Witness ==
    /\ st["orig"] = "done"
    /\ fed["orig"] = AlphaNum62 \o AlphaNum62
    /\ fin["orig"] = [pos |-> 60, n |-> 2]
    /\ Len(blocks["orig"]) = 3


---------------------------------------------------------------------------
\* C11  Pending buffer bound: in every state reached by any sequence of
\* process (input), clone and reset calls, every hasher that exists holds
\* between 0 and 63 pending bytes, never a full block of 64.
C11_PendingBufferBound ==
    \A w \in Who :
        st[w] # "none" =>
            /\ Len(hs[w].buffer) >= 0
            /\ Len(hs[w].buffer) <= BlockSize - 1

\* A hasher holding 63 pending bytes takes one more byte: the block is
\* compressed at once and nothing stays pending.
C11_Witness ==
    /\ st["orig"] = "live"
    /\ fed["orig"] = (AlphaNum62 \o MsgA) \o MsgA
    /\ Len(blocks["orig"]) = 1
    /\ hs["orig"].buffer = <<>>


---------------------------------------------------------------------------
\* Bytes 64k .. 64k+63 of stream m (k counted from 0).
StreamBlock(m, k) == SubSeq(m, (BlockSize * k) + 1, BlockSize * (k + 1))

\* The hash state after blocks k .. n-1 of stream m are compressed in
\* increasing order, each on the state the previous one produced.
RECURSIVE ChainFrom(_, _, _, _)
ChainFrom(h, m, k, n) ==
    IF k >= n \/ Len(h) # DIGEST_BUF_LEN THEN h
    ELSE ChainFrom(process_msg_block(h, StreamBlock(m, k)), m, k + 1, n)

\* C12  Block order: across any sequence of process (input) calls, the k-th
\* block handed to the compression engine is bytes 64k .. 64k+63 of the
\* concatenation of all inputs; the blocks are compressed in increasing k,
\* each on the state the previous compression produced; and no byte is
\* compressed twice or skipped (compressed blocks followed by the pending
\* bytes are exactly the stream).
C12_BlockOrder ==
    st["orig"] = "live" =>
        /\ Len(blocks["orig"]) = Len(fed["orig"]) \div BlockSize
        /\ \A k \in 0..(Len(blocks["orig"]) - 1) :
               blocks["orig"][k + 1] = StreamBlock(fed["orig"], k)
        /\ hs["orig"].h = ChainFrom(H0, fed["orig"], 0, Len(fed["orig"]) \div BlockSize)
        /\ Flatten(blocks["orig"]) \o hs["orig"].buffer = fed["orig"]

\* Three inputs of 62, 80 and 62 bytes: three blocks, each spanning a call
\* boundary, and 12 bytes left pending.
C12_Witness ==
    /\ st["orig"] = "live"
    /\ fed["orig"] = (AlphaNum62 \o Digits80) \o AlphaNum62
    /\ Len(blocks["orig"]) = 3
    /\ Len(hs["orig"].buffer) = 12
    /\ hs["orig"].h # H0


---------------------------------------------------------------------------
\* C13  Reset restores the initial state: in the state right after a reset,
\* whatever inputs preceded it, the hash state is the five initialization
\* constants, the pending buffer is empty and the length counter is 0, which
\* is the state of a freshly constructed (default) hasher.
C13_ResetRestoresInitial ==
    [][ (st["ret"] = "none" /\ st'["ret"] = "live") =>
            /\ hs'["orig"].h = H0
            /\ hs'["orig"].buffer = <<>>
            /\ hs'["orig"].len = U64Zero
            /\ hs'["orig"] = default ]_vars

\* Right after a reset that followed 142 bytes of input (two compressed
\* blocks and 14 bytes pending): the hasher is fresh again, the returned
\* value still carries the prior work.
C13_Witness ==
    /\ st["orig"] = "live"
    /\ st["ret"] = "live"
    /\ fed["ret"] = AlphaNum62 \o Digits80
    /\ Len(blocks["ret"]) = 2
    /\ hs["ret"].h # H0
    /\ Len(hs["ret"].buffer) = 14
    /\ fed["orig"] = <<>>
    /\ hs["orig"] = default


---------------------------------------------------------------------------
\* A step is a process (input) call on hasher w whose bytes, added to the
\* pending bytes, total fewer than 64.
ShortInputStep(w) ==
    /\ ncalls' = ncalls + 1
    /\ st[w] = "live"
    /\ fed'[w] # fed[w]
    /\ Len(hs[w].buffer) + (Len(fed'[w]) - Len(fed[w])) < BlockSize

\* A step hands at least one block of hasher w to the compression engine.
CompressesBlock(w) == Len(blocks'[w]) > Len(blocks[w])

\* A step is a reset of the hasher (the returned value comes into being).
ResetStep == st["ret"] = "none" /\ st'["ret"] = "live"

\* C14 as stated: a process (input) call whose bytes, added to the pending
\* bytes, total fewer than 64 leaves the five hash state words unchanged,
\* and no operation other than compressing a block changes the hash state.
C14_OnlyCompressionChangesH ==
    [][ \A w \in {"orig", "ret"} :
            st[w] # "none" =>
                /\ ShortInputStep(w) => hs'[w].h = hs[w].h
                /\ hs'[w].h # hs[w].h => CompressesBlock(w) ]_vars

\* C14 amended: a short process (input) call leaves the hash state
\* unchanged, and the hash state changes only when a block is compressed or
\* when reset puts the five initialization constants back.
C14_CompressionOrResetChangesH ==
    [][ \A w \in {"orig", "ret"} :
            st[w] # "none" =>
                /\ ShortInputStep(w) => hs'[w].h = hs[w].h
                /\ hs'[w].h # hs[w].h =>
                       \/ CompressesBlock(w)
                       \/ ResetStep /\ w = "orig" /\ hs'[w].h = H0 ]_vars

\* 80 bytes then 1 byte, a reset, then 1 byte: both short calls left the
\* hash state as it was (one compressed block before the reset, H0 after
\* it), and the reset changed it without compressing anything.
C14_Witness ==
    /\ st["orig"] = "live"
    /\ st["ret"] = "live"
    /\ fed["ret"] = Digits80 \o MsgA
    /\ hs["ret"].h = process_msg_block(H0, Digits64)
    /\ hs["ret"].h # H0
    /\ fed["orig"] = MsgA
    /\ blocks["orig"] = <<>>
    /\ hs["orig"].buffer = MsgA
    /\ hs["orig"].h = H0


---------------------------------------------------------------------------
\* 64 * t by two multiplications by eight.
BigTimes64(t) == BigTimes8(BigTimes8(t))

\* 64 * (blocks compressed) + (pending bytes) of the length-only hasher.
LockstepCount == BigAdd(BigTimes64(lc.nblocks), BigOfU64(U64FromNat(Len(lc.buffer))))

\* The last (total mod 64) bytes of stream m.
StreamTail(m) == SubSeq(m, (Len(m) - (Len(m) % BlockSize)) + 1, Len(m))

\* The lockstep of hasher w followed byte by byte: the counter against the
\* blocks compressed and the pending bytes, and the pending bytes against
\* the stream since construction or the last reset.
LockstepBytes(w) ==
    /\ hs[w].len = U64FromNat((BlockSize * Len(blocks[w])) + Len(hs[w].buffer))
    /\ Len(hs[w].buffer) = Len(fed[w]) % BlockSize
    /\ hs[w].buffer = StreamTail(fed[w])

\* C15 as stated: after every process (input) call the length counter is
\* 64 * (blocks compressed since construction or the last reset) + (pending
\* bytes), the pending length is the total modulo 64, and the pending bytes
\* are the last (total mod 64) bytes of the stream.
C15_LockstepEveryCall ==
    /\ \A w \in {"orig", "ret"} : st[w] = "live" => LockstepBytes(w)
    /\ lc.pc = "live" =>
           /\ BigOfU64(lc.len) = LockstepCount
           /\ Len(lc.buffer) = lc.total[1] % BlockSize

\* C15 amended: the same, with the counter equal to 64 * blocks + pending
\* for every total below 2^64 bytes, and equal to it modulo 2^64 beyond.
C15_LockstepBelowPow64 ==
    /\ \A w \in {"orig", "ret"} : st[w] = "live" => LockstepBytes(w)
    /\ lc.pc = "live" =>
           /\ BigBelowPow2(lc.total, 64) => BigOfU64(lc.len) = LockstepCount
           /\ BigOfU64(lc.len) = BigLow64(LockstepCount)
           /\ LockstepCount = lc.total
           /\ Len(lc.buffer) = lc.total[1] % BlockSize

\* 62 bytes, a reset, then 62 and 64 bytes: the counter of the hasher is
\* 126 = 64 * 1 + 62 and counts from the reset, that of the returned value
\* is 62.
C15_Witness ==
    /\ st["orig"] = "live"
    /\ st["ret"] = "live"
    /\ fed["ret"] = AlphaNum62
    /\ hs["ret"].len = U64FromNat(62)
    /\ fed["orig"] = AlphaNum62 \o Digits64
    /\ Len(blocks["orig"]) = 1
    /\ hs["orig"].buffer = SubSeq(Digits64, 3, 64)
    /\ hs["orig"].len = U64FromNat(126)


---------------------------------------------------------------------------
\* A step is a process (input) call with a zero-length byte sequence.
EmptyInputStep == ncalls' = ncalls + 1 /\ fed' = fed

\* C16  Empty input is a no-op: a process (input) call with a zero-length
\* byte sequence, in any reachable state, leaves the hash state, the
\* pending buffer and the length counter unchanged, hands no block to the
\* compression engine, and so leaves the digest a finalize would give
\* unchanged.
C16_EmptyInputNoOp ==
    [][ EmptyInputStep =>
            /\ hs'["orig"].h = hs["orig"].h
            /\ hs'["orig"].buffer = hs["orig"].buffer
            /\ hs'["orig"].len = hs["orig"].len
            /\ blocks' = blocks
            /\ fixed_result(hs'["orig"]).out = fixed_result(hs["orig"]).out ]_vars

\* Three calls, one of them empty, after which the hasher is as two calls
\* of 62 and 80 bytes leave it: two blocks compressed, 14 bytes pending.
C16_Witness ==
    /\ st["orig"] = "live"
    /\ ncalls = 3
    /\ fed["orig"] = AlphaNum62 \o Digits80
    /\ Len(blocks["orig"]) = 2
    /\ hs["orig"] = process(process(default, AlphaNum62), Digits80)

=============================================================================
